---- MODULE Spec2Model ----
(***************************************************************************)
(* A model of lingest's native core (src/lib.rs): process_directory, which *)
(* renders a directory tree (generate_tree) and collects file contents in  *)
(* parallel (process_files), both filtered by glob lists (should_ignore,   *)
(* matches_any).                                                           *)
(*                                                                         *)
(* Strings that the code inspects character by character (relative paths,  *)
(* glob patterns) are sequences of one-character strings.  A Path is the   *)
(* sequence of its components, which is what Path's == compares.           *)
(***************************************************************************)
EXTENDS Naturals, Sequences, FiniteSets, TLC

VARIABLES
    fs,               \* the directory snapshot: relative component path -> [kind, ok]
    readdir_order,    \* the order in which the OS lists the names of a directory
    opts,             \* LingestOptions
    pc,               \* position of the call
    tree,             \* Option<String>: NoTree, or the rendered lines
    entries,          \* process_files: the collected walker entries
    slots,            \* process_files: per entry, the unit's filter_map output
    file_contents,    \* Vec<FileContent>
    processed_count,  \* u32
    reads,            \* the relative paths fs::read_to_string was called on
    result,           \* what process_directory returned
    fpath, fglobs, fret   \* a direct call of should_ignore / matches_any

vars == <<fs, readdir_order, opts, pc, tree, entries, slots,
          file_contents, processed_count, reads, result, fpath, fglobs, fret>>

-----------------------------------------------------------------------------
(* Bounds *)

\* the largest number of entries in the directory snapshot
MaxEntries == 3
\* the longest pattern list handed to should_ignore / matches_any directly
MaxGlobs == 2

-----------------------------------------------------------------------------
(* The glob crate: glob::Pattern::new and Pattern::matches (MatchOptions::new():
   case sensitive, no literal separator, no literal leading dot). *)

Sep == "/"

Tok(t, c, cs) == [t |-> t, c |-> c, cs |-> cs]
AnyChar == Tok("AnyChar", "", {})
AnySequence == Tok("AnySequence", "", {})
AnyRecursiveSequence == Tok("AnyRecursiveSequence", "", {})
CharTok(c) == Tok("Char", c, {})

PatternError == [ok |-> FALSE, tokens |-> <<>>]

\* index of the first "]" of chars at or after position from, 0 when there is none
RECURSIVE ClosingBracket(_, _)
ClosingBracket(chars, from) ==
    IF from > Len(chars) THEN 0
    ELSE IF chars[from] = "]" THEN from
    ELSE ClosingBracket(chars, from + 1)

\* parse_char_specifiers, for specifiers without ranges
CharSpecifiers(chars, lo, hi) == {chars[k] : k \in lo..hi}

\* the end of a run of "*" that starts at position i
RECURSIVE StarsEnd(_, _)
StarsEnd(chars, i) ==
    IF i <= Len(chars) /\ chars[i] = "*" THEN StarsEnd(chars, i + 1) ELSE i

\* Pattern::new, from position i on with the tokens pushed so far
RECURSIVE PatternNewFrom(_, _, _)
PatternNewFrom(chars, i, tokens) ==
    IF i > Len(chars) THEN [ok |-> TRUE, tokens |-> tokens]
    ELSE IF chars[i] = "?" THEN PatternNewFrom(chars, i + 1, Append(tokens, AnyChar))
    ELSE IF chars[i] = "*" THEN
        LET j == StarsEnd(chars, i)
            count == j - i
        IN  IF count > 2 THEN PatternError
            ELSE IF count = 2 THEN
                IF i = 1 \/ chars[i - 1] = Sep THEN
                    IF j <= Len(chars) /\ chars[j] # Sep THEN PatternError
                    ELSE LET next == IF j <= Len(chars) THEN j + 1 ELSE j
                             n == Len(tokens)
                         IN  IF n > 1 /\ tokens[n] = AnyRecursiveSequence
                             THEN PatternNewFrom(chars, next, tokens)
                             ELSE PatternNewFrom(chars, next,
                                                 Append(tokens, AnyRecursiveSequence))
                ELSE PatternError
            ELSE PatternNewFrom(chars, j, Append(tokens, AnySequence))
    ELSE IF chars[i] = "[" THEN
        IF i + 3 <= Len(chars) /\ chars[i + 1] = "!" THEN
            LET k == ClosingBracket(chars, i + 3)
            IN  IF k = 0 THEN PatternError
                ELSE PatternNewFrom(chars, k + 1,
                         Append(tokens, Tok("AnyExcept", "",
                                            CharSpecifiers(chars, i + 2, k - 1))))
        ELSE IF i + 2 <= Len(chars) /\ chars[i + 1] # "!" THEN
            LET k == ClosingBracket(chars, i + 2)
            IN  IF k = 0 THEN PatternError
                ELSE PatternNewFrom(chars, k + 1,
                         Append(tokens, Tok("AnyWithin", "",
                                            CharSpecifiers(chars, i + 1, k - 1))))
        ELSE PatternError
    ELSE PatternNewFrom(chars, i + 1, Append(tokens, CharTok(chars[i])))

PatternNew(pattern) == PatternNewFrom(pattern, 1, <<>>)

\* whether a token other than a sequence wildcard accepts the character c
TokenAccepts(token, c) ==
    CASE token.t = "AnyChar" -> TRUE
      [] token.t = "AnyWithin" -> c \in token.cs
      [] token.t = "AnyExcept" -> c \notin token.cs
      [] OTHER -> c = token.c

\* Pattern::matches_from: "Match", "SubPatternDoesntMatch" or
\* "EntirePatternDoesntMatch" for tokens[i..] against the rest of the file name.
\* SeqLoop is the loop of a sequence wildcard that consumes the file one
\* character at a time (`while let Some(c) = file.next()`).
RECURSIVE MatchesFrom(_, _, _), SeqLoop(_, _, _)
MatchesFrom(tokens, i, file) ==
    IF i > Len(tokens)
    THEN IF file = <<>> THEN "Match" ELSE "SubPatternDoesntMatch"
    ELSE IF tokens[i].t \in {"AnySequence", "AnyRecursiveSequence"} THEN
        LET empty == MatchesFrom(tokens, i + 1, file)
        IN  IF empty # "SubPatternDoesntMatch" THEN empty
            ELSE SeqLoop(tokens, i, file)
    ELSE IF file = <<>> THEN "EntirePatternDoesntMatch"
    ELSE IF ~TokenAccepts(tokens[i], Head(file)) THEN "SubPatternDoesntMatch"
    ELSE MatchesFrom(tokens, i + 1, Tail(file))

SeqLoop(tokens, i, file) ==
    IF file = <<>> THEN MatchesFrom(tokens, i + 1, file)
    ELSE IF tokens[i].t = "AnyRecursiveSequence" /\ Head(file) # Sep
    THEN SeqLoop(tokens, i, Tail(file))
    ELSE LET m == MatchesFrom(tokens, i + 1, Tail(file))
         IN  IF m # "SubPatternDoesntMatch" THEN m
             ELSE SeqLoop(tokens, i, Tail(file))

PatternMatches(tokens, path) == MatchesFrom(tokens, 1, path) = "Match"

\* glob::Pattern::new(pattern).map(|p| p.matches(path)).unwrap_or(false)
GlobMatches(pattern, path) ==
    LET p == PatternNew(pattern)
    IN  IF p.ok THEN PatternMatches(p.tokens, path) ELSE FALSE

\* should_ignore giving up at the first pattern that does not compile
RECURSIVE should_ignore_until_error(_, _)
should_ignore_until_error(path, patterns) ==
    IF patterns = <<>> THEN FALSE
    ELSE IF ~PatternNew(Head(patterns)).ok THEN FALSE
    ELSE IF GlobMatches(Head(patterns), path) THEN TRUE
    ELSE should_ignore_until_error(path, Tail(patterns))

\* patterns.iter().any(...): stops at the first pattern that matches
RECURSIVE should_ignore(_, _)
should_ignore(path, patterns) ==
    IF patterns = <<>> THEN FALSE
    ELSE IF GlobMatches(Head(patterns), path) THEN TRUE
    ELSE should_ignore(path, Tail(patterns))

RECURSIVE matches_any(_, _)
matches_any(path, patterns) ==
    IF patterns = <<>> THEN FALSE
    ELSE IF GlobMatches(Head(patterns), path) THEN TRUE
    ELSE matches_any(path, Tail(patterns))

-----------------------------------------------------------------------------
(* The directory snapshot.  A node is keyed by its components below the root
   (<<>> is the root itself); kind is what file_type() reports ("symlink"
   stands for everything that is neither a directory nor a regular file);
   ok says that read_dir (a directory) or read_to_string (a file) succeeds. *)

Names == {"a", "b", "c"}

\* the byte each one-character name is compared by (OsString's Ord)
ByteOf == [n \in Names |-> IF n = "a" THEN 97 ELSE IF n = "b" THEN 98 ELSE 99]

\* the places of a snapshot: three names in the root, two below the directory a
RelPaths == {<<n>> : n \in Names} \cup {<<"a", "a">>, <<"a", "b">>}

Parent(p) == SubSeq(p, 1, Len(p) - 1)

IsPrefix(p, q) == Len(p) <= Len(q) /\ SubSeq(q, 1, Len(p)) = p

Exists(p) == p \in DOMAIN fs
IsDir(p) == Exists(p) /\ fs[p].kind = "dir"
IsFile(p) == Exists(p) /\ fs[p].kind = "file"

\* Path::strip_prefix(base).unwrap_or(path)
StripPrefix(path, base) ==
    IF IsPrefix(base, path) THEN SubSeq(path, Len(base) + 1, Len(path)) ELSE path

\* to_string_lossy of a relative path: its components joined by the separator
RECURSIVE PathString(_)
PathString(comps) ==
    IF comps = <<>> THEN <<>>
    ELSE IF Len(comps) = 1 THEN <<comps[1]>>
    ELSE <<comps[1], Sep>> \o PathString(Tail(comps))

\* .replace('\\', "/")
RECURSIVE Replace(_)
Replace(str) ==
    IF str = <<>> THEN <<>>
    ELSE <<IF Head(str) = "\\" THEN Sep ELSE Head(str)>> \o Replace(Tail(str))

RelativeStr(path, base_path) == Replace(PathString(StripPrefix(path, base_path)))

-----------------------------------------------------------------------------
(* generate_tree *)

\* the ASCII stand-ins of the box-drawing connectors of lines 108 and 119
Corner == "+-- "
Branch == "|-- "
Blank == "    "
Bar == "|   "

\* the names of a sequence, kept in the order of the sequence order
RECURSIVE InOrder(_, _)
InOrder(order, S) ==
    IF order = <<>> THEN <<>>
    ELSE IF Head(order) \in S THEN <<Head(order)>> \o InOrder(Tail(order), S)
    ELSE InOrder(Tail(order), S)

\* fs::read_dir(dir): the entries of dir as the OS lists them, or an error
ReadDir(dir, base_path, os_order) ==
    LET rel == StripPrefix(dir, base_path)
    IN  IF ~IsDir(rel) \/ ~fs[rel].ok THEN [ok |-> FALSE, entries |-> <<>>]
        ELSE LET names == InOrder(os_order,
                                  {n \in Names : Exists(Append(rel, n))})
             IN  [ok |-> TRUE,
                  entries |-> [k \in 1..Len(names) |->
                                 [name |-> names[k],
                                  path |-> Append(dir, names[k]),
                                  kind |-> fs[Append(rel, names[k])].kind]]]

\* .filter(|e| e.path() != output_path)
RECURSIVE FilterOutput(_, _)
FilterOutput(es, output_path) ==
    IF es = <<>> THEN <<>>
    ELSE IF Head(es).path # output_path
    THEN <<Head(es)>> \o FilterOutput(Tail(es), output_path)
    ELSE FilterOutput(Tail(es), output_path)

\* a comparator that forgets the names
EntryCmpKindOnly(a, b) ==
    IF a.kind = "dir" /\ b.kind # "dir" THEN "Less"
    ELSE IF a.kind # "dir" /\ b.kind = "dir" THEN "Greater"
    ELSE "Equal"

\* the comparator of entries.sort_by
EntryCmp(a, b) ==
    LET a_is_dir == a.kind = "dir"
        b_is_dir == b.kind = "dir"
    IN  IF a_is_dir /\ ~b_is_dir THEN "Less"
        ELSE IF ~a_is_dir /\ b_is_dir THEN "Greater"
        ELSE IF ByteOf[a.name] < ByteOf[b.name] THEN "Less"
        ELSE IF ByteOf[a.name] > ByteOf[b.name] THEN "Greater"
        ELSE "Equal"

\* a stable sort: e goes after the elements of the sorted es not greater than it
RECURSIVE Insert(_, _)
Insert(e, es) ==
    IF es = <<>> THEN <<e>>
    ELSE IF EntryCmp(e, Head(es)) = "Less" THEN <<e>> \o es
    ELSE <<Head(es)>> \o Insert(e, Tail(es))

RECURSIVE SortEntries(_)
SortEntries(es) ==
    IF es = <<>> THEN <<>>
    ELSE Insert(es[Len(es)], SortEntries(SubSeq(es, 1, Len(es) - 1)))

\* is_last one off
IsLastOffByOne(index, total) == index = total

\* let is_last = index == total - 1
IsLast(index, total) == index = total - 1

\* one rendered line; rel (the entry's relative_str) is not part of the text
Line(prefix, connector, name, dir, rel) ==
    [prefix |-> prefix, connector |-> connector, name |-> name, dir |-> dir,
     rel |-> rel]

RECURSIVE generate_tree(_, _, _, _, _, _, _), TreeLoop(_, _, _, _, _, _, _, _)
generate_tree(dir, base_path, prefix, ignore_globs, include_globs, output_path, os_order) ==
    LET listing == ReadDir(dir, base_path, os_order)
    IN  IF ~listing.ok THEN <<>>
        ELSE TreeLoop(SortEntries(FilterOutput(listing.entries, output_path)), 0,
                      base_path, prefix, ignore_globs, include_globs, output_path,
                      os_order)

\* the for loop of generate_tree from index on (index counts from 0)
TreeLoop(sorted, index, base_path, prefix, ignore_globs, include_globs, output_path, os_order) ==
    IF index >= Len(sorted) THEN <<>>
    ELSE
    LET entry == sorted[index + 1]
        rest == TreeLoop(sorted, index + 1, base_path, prefix, ignore_globs,
                         include_globs, output_path, os_order)
        relative_str == RelativeStr(entry.path, base_path)
        is_last == IsLast(index, Len(sorted))
        connector == IF is_last THEN Corner ELSE Branch
    IN  IF should_ignore(relative_str, ignore_globs) THEN rest
        ELSE IF entry.kind = "dir" THEN
            <<Line(prefix, connector, entry.name, TRUE, relative_str)>>
            \o generate_tree(entry.path, base_path,
                             prefix \o (IF is_last THEN Blank ELSE Bar),
                             ignore_globs, include_globs, output_path, os_order)
            \o rest
        ELSE IF entry.kind = "file" THEN
            IF include_globs # <<>> /\ ~matches_any(relative_str, include_globs)
            THEN rest
            ELSE <<Line(prefix, connector, entry.name, FALSE, relative_str)>> \o rest
        ELSE rest

\* the String the lines stand for
RECURSIVE TreeText(_)
TreeText(lines) ==
    IF lines = <<>> THEN ""
    ELSE Head(lines).prefix \o Head(lines).connector \o Head(lines).name
         \o (IF Head(lines).dir THEN "/\n" ELSE "\n") \o TreeText(Tail(lines))

NoTree == [some |-> FALSE, lines |-> <<>>]
SomeTree(lines) == [some |-> TRUE, lines |-> lines]

-----------------------------------------------------------------------------
(* process_files *)

\* WalkDir::new(base_path).follow_links(false).into_iter().filter_map(|e| e.ok()):
\* the entries below dir, parents before their contents, in the OS's order
RECURSIVE WalkBelow(_, _, _), WalkEntries(_, _, _)
WalkBelow(dir, base_path, os_order) ==
    LET listing == ReadDir(dir, base_path, os_order)
    IN  IF ~listing.ok THEN <<>> ELSE WalkEntries(listing.entries, base_path, os_order)

WalkEntries(es, base_path, os_order) ==
    IF es = <<>> THEN <<>>
    ELSE <<Head(es)>>
         \o (IF Head(es).kind = "dir"
             THEN WalkBelow(Head(es).path, base_path, os_order)
             ELSE <<>>)
         \o WalkEntries(Tail(es), base_path, os_order)

\* the walk with its root entry, which WalkDir yields first
WalkDir(base_path, os_order) ==
    IF ~Exists(<<>>) THEN <<>>
    ELSE <<[name |-> "", path |-> base_path, kind |-> fs[<<>>].kind]>>
         \o (IF fs[<<>>].kind = "dir" THEN WalkBelow(base_path, base_path, os_order)
             ELSE <<>>)

\* .filter(|e| e.file_type().is_file())
RECURSIVE FilterFiles(_)
FilterFiles(es) ==
    IF es = <<>> THEN <<>>
    ELSE IF Head(es).kind = "file" THEN <<Head(es)>> \o FilterFiles(Tail(es))
    ELSE FilterFiles(Tail(es))

Walker(base_path, output_path, os_order) ==
    FilterOutput(FilterFiles(WalkDir(base_path, os_order)), output_path)

ReadError == "Could not be read as UTF-8 text. Might be binary or encoding issue."

\* what the file at the relative components rel holds
TextOf(rel) == <<"text of ">> \o PathString(rel)

\* format!("[Dry Run] Content of {} would be here.", relative_str)
DryRunContent(relative_str) ==
    <<"[Dry Run] Content of ">> \o relative_str \o <<" would be here.">>

FileContent(path, content, error) ==
    [path |-> path, content |-> content, error |-> error]

None == [some |-> FALSE, v |-> <<>>]
Some(v) == [some |-> TRUE, v |-> v]

\* a unit that reads whatever dry_run says
UnitReadsAlways(dry_run) == TRUE

\* whether a unit that passed the filters calls fs::read_to_string
UnitReads(dry_run) == ~dry_run

\* whether the closure of filter_map keeps the entry
UnitKeeps(relative_str, ignore_globs, include_globs) ==
    /\ ~should_ignore(relative_str, ignore_globs)
    /\ ~(include_globs # <<>> /\ ~matches_any(relative_str, include_globs))

\* a closure that drops the file it cannot read
UnitResultDropsUnreadable(entry, base_path, ignore_globs, include_globs, dry_run) ==
    LET rel == StripPrefix(entry.path, base_path)
        relative_str == RelativeStr(entry.path, base_path)
    IN  IF ~UnitKeeps(relative_str, ignore_globs, include_globs) THEN None
        ELSE IF dry_run
        THEN Some(FileContent(relative_str, DryRunContent(relative_str), None))
        ELSE IF fs[rel].ok
        THEN Some(FileContent(relative_str, TextOf(rel), None))
        ELSE None

\* the closure of filter_map on one entry: Option<FileContent>
UnitResult(entry, base_path, ignore_globs, include_globs, dry_run) ==
    LET rel == StripPrefix(entry.path, base_path)
        relative_str == RelativeStr(entry.path, base_path)
    IN  IF ~UnitKeeps(relative_str, ignore_globs, include_globs) THEN None
        ELSE IF ~UnitReads(dry_run)
        THEN Some(FileContent(relative_str, DryRunContent(relative_str), None))
        ELSE IF fs[rel].ok
        THEN Some(FileContent(relative_str, TextOf(rel), None))
        ELSE Some(FileContent(relative_str, <<>>, Some(ReadError)))

\* collect(): the Some outputs, in the order of the entries
RECURSIVE CollectSlots(_)
CollectSlots(outs) ==
    IF outs = <<>> THEN <<>>
    ELSE IF Head(outs).some THEN <<Head(outs).v>> \o CollectSlots(Tail(outs))
    ELSE CollectSlots(Tail(outs))

Pending == [pending |-> TRUE, out |-> None]
Done(out) == [pending |-> FALSE, out |-> out]

\* a collect() that returns as soon as one unit has produced its output
AnyUnitDone == \E i \in 1..Len(slots) : ~slots[i].pending

\* collect() returns once every unit has produced its output
AllUnitsDone == \A i \in 1..Len(slots) : ~slots[i].pending

-----------------------------------------------------------------------------
(* process_directory, step by step *)

Idle == <<>>

\* lines 38-49: the tree, when asked for
GenerateTree ==
    /\ pc = "call"
    /\ tree' = IF ~opts.no_tree
               THEN SomeTree(generate_tree(opts.cwd, opts.cwd, "", opts.ignore_globs,
                                           opts.include_globs, opts.output_path,
                                           readdir_order))
               ELSE NoTree
    /\ pc' = "walk"
    /\ UNCHANGED <<fs, readdir_order, opts, entries, slots, file_contents,
                   processed_count, reads, result, fpath, fglobs, fret>>

\* lines 149-156: the walker is collected into entries
Walk ==
    /\ pc = "walk"
    /\ entries' = Walker(opts.cwd, opts.output_path, readdir_order)
    /\ slots' = [i \in 1..Len(entries') |-> Pending]
    /\ pc' = "units"
    /\ UNCHANGED <<fs, readdir_order, opts, tree, file_contents, processed_count,
                   reads, result, fpath, fglobs, fret>>

\* lines 160-195: the unit of entry i runs, whenever a worker picks it
Unit(i) ==
    /\ pc = "units"
    /\ slots[i].pending
    /\ LET out == UnitResult(entries[i], opts.cwd, opts.ignore_globs,
                             opts.include_globs, opts.dry_run)
       IN  /\ slots' = [slots EXCEPT ![i] = Done(out)]
           /\ reads' = IF out.some /\ UnitReads(opts.dry_run)
                       THEN reads \cup {StripPrefix(entries[i].path, opts.cwd)}
                       ELSE reads
    /\ UNCHANGED <<fs, readdir_order, opts, pc, tree, entries, file_contents,
                   processed_count, result, fpath, fglobs, fret>>

\* lines 196-200: collect() and the count
Collect ==
    /\ pc = "units"
    /\ AllUnitsDone
    /\ file_contents' = CollectSlots([i \in 1..Len(slots) |-> slots[i].out])
    \* `as u32` changes nothing below 2^32 records
    /\ processed_count' = Len(file_contents')
    /\ pc' = "return"
    /\ UNCHANGED <<fs, readdir_order, opts, tree, entries, slots, reads, result,
                   fpath, fglobs, fret>>

\* lines 58-64: process_files returned Ok, and so does process_directory
Return ==
    /\ pc = "return"
    /\ result' = [ok |-> TRUE, tree |-> tree, file_contents |-> file_contents,
                  processed_count |-> processed_count]
    /\ pc' = "done"
    /\ UNCHANGED <<fs, readdir_order, opts, tree, entries, slots, file_contents,
                   processed_count, reads, fpath, fglobs, fret>>

\* a direct call of should_ignore
CallShouldIgnore ==
    /\ pc = "filter"
    /\ fret' = should_ignore(fpath, fglobs)
    /\ pc' = "ignored"
    /\ UNCHANGED <<fs, readdir_order, opts, tree, entries, slots, file_contents,
                   processed_count, reads, result, fpath, fglobs>>

\* a direct call of matches_any
CallMatchesAny ==
    /\ pc = "filter"
    /\ fret' = matches_any(fpath, fglobs)
    /\ pc' = "matched"
    /\ UNCHANGED <<fs, readdir_order, opts, tree, entries, slots, file_contents,
                   processed_count, reads, result, fpath, fglobs>>

-----------------------------------------------------------------------------
(* The inputs *)

NodeAttrs == {[kind |-> "dir", ok |-> TRUE], [kind |-> "dir", ok |-> FALSE],
              [kind |-> "file", ok |-> TRUE], [kind |-> "file", ok |-> FALSE],
              [kind |-> "symlink", ok |-> TRUE]}

Root == <<>>

\* the sets of entries a snapshot may hold: each entry with its parent
EntrySets ==
    {T \in SUBSET RelPaths :
        /\ Cardinality(T) <= MaxEntries
        /\ \A p \in T : Len(p) > 1 => Parent(p) \in T}

\* no root at all, a root that is a regular file, or a root directory with
\* entries, everything below a directory
Snapshots ==
    {<<>>}
    \cup {[p \in {Root} |-> a] : a \in {b \in NodeAttrs : b.kind = "file"}}
    \cup {f \in UNION {[T \cup {Root} -> NodeAttrs] : T \in EntrySets} :
            /\ f[Root].kind = "dir"
            /\ \A p \in DOMAIN f : p # Root => f[Parent(p)].kind = "dir"}

\* the snapshots generate_tree tells apart: it reads no file
TreeSnapshots ==
    {f \in Snapshots : \A p \in DOMAIN f : f[p].kind = "file" => f[p].ok}

Cwd == <<"/", "r">>

\* outside the root; two files of the root as read_dir and WalkDir spell them;
\* the file b of the root spelled through the directory a
OutputPaths == {<<"/", "o">>, Cwd \o <<"b">>, Cwd \o <<"a", "b">>,
                Cwd \o <<"a", "..", "b">>}

GlobStrings == {<<"a">>, <<"*">>, <<"?">>, <<"a", "/", "*">>, <<"*", "*", "/", "b">>,
                <<"[", "a", "]">>, <<"[">>, <<"a", "*", "*">>}

GlobLists == {<<>>, <<<<"a">>>>, <<<<"*">>>>, <<<<"a", "/", "*">>>>,
              <<<<"*", "*", "/", "b">>>>, <<<<"[">>>>, <<<<"[">>, <<"b">>>>}

FewGlobLists == {<<>>, <<<<"a">>>>, <<<<"a", "/", "*">>>>, <<<<"[">>, <<"b">>>>}

Orders == {<<"a", "b", "c">>, <<"a", "c", "b">>, <<"b", "a", "c">>,
           <<"b", "c", "a">>, <<"c", "a", "b">>, <<"c", "b", "a">>}

\* the pattern lists of at most n patterns
RECURSIVE ListsUpTo(_)
ListsUpTo(n) ==
    IF n = 0 THEN {<<>>}
    ELSE ListsUpTo(n - 1)
         \cup {Append(l, g) : l \in {m \in ListsUpTo(n - 1) : Len(m) = n - 1},
                              g \in GlobStrings}

RelStr(p) == Replace(PathString(p))

InitWith(snapshots, options, orders, start) ==
    /\ fs \in snapshots
    /\ opts \in options
    /\ readdir_order \in orders
    /\ pc = start
    /\ tree = NoTree
    /\ entries = <<>>
    /\ slots = <<>>
    /\ file_contents = <<>>
    /\ processed_count = 0
    /\ reads = {}
    /\ result = Idle
    /\ fpath = <<>>
    /\ fglobs = <<>>
    /\ fret = FALSE

\* process_directory on every snapshot
Init ==
    InitWith(Snapshots,
             [cwd : {Cwd}, output_path : OutputPaths, ignore_globs : GlobLists,
              include_globs : FewGlobLists, no_tree : BOOLEAN, dry_run : BOOLEAN],
             {<<"a", "b", "c">>}, "call")

Next ==
    \/ GenerateTree
    \/ Walk
    \/ \E i \in 1..Len(slots) : Unit(i)
    \/ Collect
    \/ Return

Spec == Init /\ [][Next]_vars

\* generate_tree alone, under every listing order
InitTree ==
    InitWith(TreeSnapshots,
             [cwd : {Cwd}, output_path : {<<"/", "o">>, Cwd \o <<"b">>, Cwd \o <<"a", "b">>},
              ignore_globs : GlobLists, include_globs : FewGlobLists,
              no_tree : {FALSE}, dry_run : {FALSE}],
             Orders, "call")

NextTree == GenerateTree

SpecTree == InitTree /\ [][NextTree]_vars

\* process_files alone, under every listing order and every order of the units
InitFiles ==
    InitWith(Snapshots,
             [cwd : {Cwd}, output_path : {<<"/", "o">>, Cwd \o <<"b">>},
              ignore_globs : FewGlobLists, include_globs : FewGlobLists,
              no_tree : {TRUE}, dry_run : BOOLEAN],
             {<<"a", "b", "c">>, <<"c", "b", "a">>}, "walk")

NextFiles ==
    \/ Walk
    \/ \E i \in 1..Len(slots) : Unit(i)
    \/ Collect

SpecFiles == InitFiles /\ [][NextFiles]_vars

\* should_ignore and matches_any alone
InitFilter ==
    /\ fpath \in {RelStr(p) : p \in RelPaths \cup {Root}}
    /\ fglobs \in ListsUpTo(MaxGlobs)
    /\ fret = FALSE
    /\ pc = "filter"
    /\ fs = <<>>
    /\ opts = Idle
    /\ readdir_order = <<>>
    /\ tree = NoTree
    /\ entries = <<>>
    /\ slots = <<>>
    /\ file_contents = <<>>
    /\ processed_count = 0
    /\ reads = {}
    /\ result = Idle

NextFilter ==
    \/ CallShouldIgnore
    \/ CallMatchesAny

SpecFilter == InitFilter /\ [][NextFilter]_vars

-----------------------------------------------------------------------------
(* What the properties speak of *)

\* p and everything above it can be listed: the traversals reach p
Visible(p) ==
    /\ Exists(p)
    /\ \A k \in 0..(Len(p) - 1) : IsDir(SubSeq(p, 1, k)) /\ fs[SubSeq(p, 1, k)].ok

\* some pattern of the list compiles and matches the string
SomeGlobMatches(globs, str) ==
    \E i \in 1..Len(globs) :
        PatternNew(globs[i]).ok /\ PatternMatches(PatternNew(globs[i]).tokens, str)

Ignored(p) == SomeGlobMatches(opts.ignore_globs, RelStr(p))
Included(p) == opts.include_globs = <<>> \/ SomeGlobMatches(opts.include_globs, RelStr(p))

\* p or a directory above it matches an ignore pattern
PrunedByIgnore(p) == \E k \in 1..Len(p) : Ignored(SubSeq(p, 1, k))

\* the regular files the walk of process_files yields
Enumerated(p) == IsFile(p) /\ Visible(p) /\ Cwd \o p # opts.output_path

RecordsFor(p) == {i \in 1..Len(file_contents) : file_contents[i].path = RelStr(p)}
HasRecord(p) == RecordsFor(p) # {}

LinesFor(p, dir) ==
    {i \in 1..Len(tree.lines) : tree.lines[i].dir = dir /\ tree.lines[i].rel = RelStr(p)}
HasFileLine(p) == tree.some /\ LinesFor(p, FALSE) # {}
HasDirLine(p) == tree.some /\ LinesFor(p, TRUE) # {}

\* the place a path names, ".." taken through the directories of the snapshot;
\* <<"?">> when the path names nothing
RECURSIVE ResolveFrom(_, _)
ResolveFrom(comps, at) ==
    IF comps = <<>> THEN at
    ELSE IF Head(comps) = ".."
    THEN IF IsPrefix(Cwd, at) /\ Len(at) > Len(Cwd) /\ IsDir(StripPrefix(at, Cwd))
         THEN ResolveFrom(Tail(comps), Parent(at))
         ELSE <<"?">>
    ELSE ResolveFrom(Tail(comps), Append(at, Head(comps)))

\* the output path names the file p of the root
Designates(path, p) == IsFile(p) /\ p # Root /\ ResolveFrom(path, <<>>) = Cwd \o p

-----------------------------------------------------------------------------
(* C1: the tree and the records show the same files: a regular file under the
   root has a file line in the tree iff process_files gave it a record. *)
C1_TreeAndRecordsAgree ==
    (pc = "done" /\ result.tree.some) =>
        \A p \in DOMAIN fs \ {Root} :
            IsFile(p) => (HasFileLine(p) <=> HasRecord(p))

(* C2: a file inside the root that the output path names has no line in the
   tree, no record, and is never read. *)
C2_OutputNeverAppears ==
    pc = "done" =>
        \A p \in DOMAIN fs :
            Designates(opts.output_path, p) =>
                ~HasFileLine(p) /\ ~HasRecord(p) /\ p \notin reads

(* C4: process_directory fails when, and only when, the root does not exist or
   cannot be opened. *)
C4_FailsIffRootInaccessible ==
    pc = "done" =>
        (~result.ok <=> (~Exists(Root) \/ (IsDir(Root) /\ ~fs[Root].ok)))

(* C8: include patterns gate files only: a file that no ignore pattern matches
   is in the tree and in the records iff the include list is empty or matches
   it, and a directory not pruned by an ignore pattern is in the tree. *)
C8_IncludeGatesFilesOnly ==
    (pc = "done" /\ result.tree.some) =>
        \A p \in DOMAIN fs \ {Root} :
            (Visible(p) /\ Cwd \o p # opts.output_path) =>
                /\ (IsFile(p) /\ ~Ignored(p)) =>
                       /\ HasFileLine(p) <=> Included(p)
                       /\ HasRecord(p) <=> Included(p)
                /\ (IsDir(p) /\ ~PrunedByIgnore(p)) => HasDirLine(p)

-----------------------------------------------------------------------------
(* C3: process_files gives exactly one record to every enumerated file that
   passes the ignore and include tests and none to any other; a read that
   succeeds gives the text and no error, a read that fails gives empty content
   and the diagnostic; processed_count is the number of records. *)
C3_OneRecordPerPassingFile ==
    pc = "return" =>
        /\ \A p \in DOMAIN fs :
             Cardinality(RecordsFor(p))
                 = IF Enumerated(p) /\ ~Ignored(p) /\ Included(p) THEN 1 ELSE 0
        /\ \A i \in 1..Len(file_contents) :
             \E p \in DOMAIN fs : file_contents[i].path = RelStr(p)
        /\ ~opts.dry_run =>
             \A p \in DOMAIN fs : \A i \in RecordsFor(p) :
                 IF fs[p].ok
                 THEN file_contents[i].content = TextOf(p)
                      /\ file_contents[i].error = None
                 ELSE file_contents[i].content = <<>>
                      /\ file_contents[i].error = Some(ReadError)
        /\ processed_count = Len(file_contents)

\* a failed read next to a successful one
C3_Witness ==
    /\ pc = "return"
    /\ \E i, j \in 1..Len(file_contents) :
         file_contents[i].error.some /\ ~file_contents[j].error.some

(* C5: in a dry run nothing is read, every record holds the placeholder built
   from its own path and no error, and the records are of the same paths as
   without dry_run. *)
C5_DryRunReadsNothing ==
    opts.dry_run =>
        /\ reads = {}
        /\ pc = "return" =>
             /\ \A i \in 1..Len(file_contents) :
                  /\ file_contents[i].content = DryRunContent(file_contents[i].path)
                  /\ file_contents[i].error = None
             /\ {file_contents[i].path : i \in 1..Len(file_contents)}
                  = {UnitResult(entries[i], opts.cwd, opts.ignore_globs,
                                opts.include_globs, FALSE).v.path :
                       i \in {k \in 1..Len(entries) :
                                UnitResult(entries[k], opts.cwd, opts.ignore_globs,
                                           opts.include_globs, FALSE).some}}

\* a dry run over two files, one of which could not have been read
C5_Witness ==
    /\ pc = "return"
    /\ opts.dry_run
    /\ Len(file_contents) >= 2
    /\ \E p \in DOMAIN fs : HasRecord(p) /\ ~fs[p].ok

\* what the units give when run one after the other in the order of the entries
SequentialRecords ==
    CollectSlots([i \in 1..Len(entries) |->
                    UnitResult(entries[i], opts.cwd, opts.ignore_globs,
                               opts.include_globs, opts.dry_run)])

(* C7: whatever order the units ran in, process_files returns the records of
   the sequential run, each once, and their number. *)
C7_AnyInterleavingSameRecords ==
    pc = "return" =>
        /\ {file_contents[i] : i \in 1..Len(file_contents)}
             = {SequentialRecords[i] : i \in 1..Len(SequentialRecords)}
        /\ Len(file_contents) = Len(SequentialRecords)
        /\ processed_count = Len(SequentialRecords)

\* the unit of a later entry has finished while that of an earlier one has not
C7_Witness ==
    /\ pc = "units"
    /\ \E i, j \in 1..Len(slots) :
         i < j /\ slots[i].pending /\ ~slots[j].pending /\ slots[j].out.some
         /\ UnitResult(entries[i], opts.cwd, opts.ignore_globs, opts.include_globs,
                       opts.dry_run).some

-----------------------------------------------------------------------------
\* the directory a line's entry is listed in, as a string
ParentStr(rel) == IF Len(rel) <= 1 THEN <<>> ELSE SubSeq(rel, 1, Len(rel) - 2)

\* the listing order every other one is compared with
Ascending == <<"a", "b", "c">>

(* C6: the text generate_tree returns under the order in which the OS happened
   to list the directories is the text it returns when the OS lists them in
   ascending order, so it is one text under every listing order; the lines of a
   directory come directories first, and lines of the same kind by name. *)
C6_TreeTextIndependentOfListingOrder ==
    pc = "walk" =>
        /\ TreeText(tree.lines)
             = TreeText(generate_tree(opts.cwd, opts.cwd, "", opts.ignore_globs,
                                      opts.include_globs, opts.output_path, Ascending))
        /\ \A i, j \in 1..Len(tree.lines) :
             (i < j /\ ParentStr(tree.lines[i].rel) = ParentStr(tree.lines[j].rel)) =>
                 /\ tree.lines[i].dir \/ ~tree.lines[j].dir
                 /\ tree.lines[i].dir = tree.lines[j].dir =>
                        ByteOf[tree.lines[i].name] < ByteOf[tree.lines[j].name]

\* the OS listed c, b, a, and the tree shows a directory before two files of
\* smaller names, which are in the order of their names
C6_Witness ==
    /\ pc = "walk"
    /\ readdir_order = <<"c", "b", "a">>
    /\ Len(tree.lines) = 3
    /\ tree.lines[1].dir /\ tree.lines[1].name = "c"
    /\ ~tree.lines[2].dir /\ tree.lines[2].name = "a"
    /\ ~tree.lines[3].dir /\ tree.lines[3].name = "b"

\* q comes before p in the sorted listing of their directory
SortsBefore(q, p) ==
    \/ IsDir(q) /\ ~IsDir(p)
    \/ IsDir(q) = IsDir(p) /\ ByteOf[q[Len(q)]] < ByteOf[p[Len(p)]]

\* p is the last of its directory's listing, the output path removed
LastInListing(p) ==
    \A q \in DOMAIN fs \ {Root, p} :
        (Parent(q) = Parent(p) /\ Cwd \o q # opts.output_path) => SortsBefore(q, p)

(* C10: a line has the corner connector iff its entry is the last of the sorted
   listing of its directory, taken without the output path and before any
   filtering, and the branch connector otherwise; the lines below a directory
   extend its prefix by four spaces after a corner and by the bar after a
   branch; every line is an entry of the snapshot. *)
C10_CornerIffLastOfUnfilteredListing ==
    pc = "walk" =>
        \A i \in 1..Len(tree.lines) :
            \E p \in DOMAIN fs \ {Root} :
                /\ tree.lines[i].rel = RelStr(p)
                /\ tree.lines[i].connector = IF LastInListing(p) THEN Corner ELSE Branch
                /\ IF Len(p) = 1 THEN tree.lines[i].prefix = ""
                   ELSE \E j \in LinesFor(Parent(p), TRUE) :
                            tree.lines[i].prefix
                                = tree.lines[j].prefix
                                  \o (IF tree.lines[j].connector = Corner
                                      THEN Blank ELSE Bar)

\* the last entry of the root's listing is filtered out: lines of the root, none
\* with the corner, and a line below a branch
C10_Witness ==
    /\ pc = "walk"
    /\ \E i \in 1..Len(tree.lines) : tree.lines[i].prefix = Bar
    /\ \A i \in 1..Len(tree.lines) :
         tree.lines[i].prefix = "" => tree.lines[i].connector = Branch

-----------------------------------------------------------------------------
(* C9: should_ignore and matches_any return true iff some pattern of the list
   compiles and matches the path; a pattern that does not compile matches
   nothing and does not keep the patterns after it from being tried. *)
C9_TrueIffSomePatternCompilesAndMatches ==
    pc \in {"ignored", "matched"} => (fret <=> SomeGlobMatches(fglobs, fpath))

\* should_ignore found a match after a pattern that does not compile
C9_Witness ==
    /\ pc = "ignored"
    /\ fret
    /\ Len(fglobs) >= 2
    /\ ~PatternNew(fglobs[1]).ok

====
